---- MODULE Spec2Model ----
(***************************************************************************)
(* Gofra: static stack type-checker (gofra/typecheck/type_safety.py) and   *)
(* ARM64/MacOS code generator (gofra/codegen/backends/arm64_macos.py).     *)
(*                                                                         *)
(* Spec     : one type-check session, validate_type_safety.  The argument  *)
(*            `operators` is the input of the session; the model draws its *)
(*            next element at every iteration of the `for` loop.           *)
(* SpecGen  : generate_ARM64_MacOS_backend called on one ProgramContext,   *)
(*            then called again on the same ProgramContext.                *)
(***************************************************************************)
EXTENDS Integers, Sequences, FiniteSets, TLC

\* ------------------------------------------------------------------ bounds
MaxDepth == 3          \* abstract stack depth up to which a session is followed
MaxSyscallIndex == 2   \* SYSCALL0 .. SYSCALL<MaxSyscallIndex> are drawn
MaxImm == 2            \* immediates (operands, injected values) are 1..MaxImm
MaxOps == 2            \* length of an operator sequence given to the generator
MaxFill == 1           \* operators between the control operators of a wired block
MaxCalls == 2          \* calls of the generator on one ProgramContext
MaxClock == 2          \* datetime.now() is one of 1..MaxClock
WordBits == 3          \* width of a register and of a stack slot, in bits

\* --------------------------------------------------------- encoding of None
NoneInt == -1          \* Python None where the other values are integers
NoneType == "None"     \* Python None where the other values are GofraType

\* ------------------------------------------------------------- data model
GofraType == {"INTEGER", "POINTER", "BOOLEAN"}

ComparisonIntrinsics ==
  {"EQUAL", "LESS_EQUAL_THAN", "LESS_THAN", "GREATER_EQUAL_THAN", "GREATER_THAN", "NOT_EQUAL"}

SyscallIntrinsics ==
  {"SYSCALL0", "SYSCALL1", "SYSCALL2", "SYSCALL3", "SYSCALL4", "SYSCALL5", "SYSCALL6"}

Intrinsic ==
  {"MEMORY_STORE", "MEMORY_LOAD", "INCREMENT", "DECREMENT", "DROP", "MINUS", "PLUS",
   "MULTIPLY", "DIVIDE", "MODULUS", "COPY", "SWAP"}
  \cup ComparisonIntrinsics \cup SyscallIntrinsics

OperatorType ==
  {"PUSH_INTEGER", "PUSH_STRING", "INTRINSIC", "IF", "DO", "WHILE", "END", "CALL"}

\* An Operator.  `operand` holds the intrinsic, the function name or the string
\* literal; the integer operand of PUSH_INTEGER is kept in `integer` so that
\* every field has one type.  `token_text` is token.text as its sequence of
\* characters: the literal between its quotes (literals are one character long).
\* `syscall_optimization_injected_args` is <<>> when the attribute is None
\* (both are falsy for `if x:` and `x or ...`).
Operator(type, operand, integer, jumps_to, has_opt, infer, omit, injected) ==
  [type |-> type, operand |-> operand, integer |-> integer,
   token_text |-> IF type = "PUSH_STRING" THEN <<"\"", operand, "\"">> ELSE <<>>,
   jumps_to_operator_idx |-> jumps_to,
   has_optimizations |-> has_opt,
   infer_type_after_optimization |-> infer,
   syscall_optimization_omit_result |-> omit,
   syscall_optimization_injected_args |-> injected]

PlainOperator(type, operand) ==
  Operator(type, operand, 0, NoneInt, FALSE, NoneType, FALSE, <<>>)

NoOperator == PlainOperator("NONE", "")

SyscallIndex(name) ==
  CASE name = "SYSCALL0" -> 0 [] name = "SYSCALL1" -> 1 [] name = "SYSCALL2" -> 2
    [] name = "SYSCALL3" -> 3 [] name = "SYSCALL4" -> 4 [] name = "SYSCALL5" -> 5
    [] name = "SYSCALL6" -> 6

\* Operator.get_syscall_arguments_count: the syscall number slot plus the
\* index of the intrinsic.
get_syscall_arguments_count(operator) == SyscallIndex(operator.operand) + 1

\* ------------------------------------------------ TypecheckContext (helpers)
NoError ==
  [kind |-> "none", operator |-> NoOperator, required_args |-> 0,
   expected_type |-> NoneType, actual_type |-> NoneType,
   actual_lhs_type |-> NoneType, actual_rhs_type |-> NoneType, stack_size |-> 0]

TypecheckContext(stack) == [emulated_stack_types |-> stack, error |-> NoError]

Raised(context) == context.error.kind # "none"

Raise(context, error) == IF Raised(context) THEN context ELSE [context EXCEPT !.error = error]

\* the type a pop would return ("None" when there is nothing to pop)
top_type(context) ==
  IF context.emulated_stack_types = <<>> THEN NoneType
  ELSE context.emulated_stack_types[Len(context.emulated_stack_types)]

push_types(context, types) ==
  IF Raised(context) THEN context
  ELSE [context EXCEPT !.emulated_stack_types = @ \o types]

\* list.pop() on the abstract stack; an empty list raises IndexError
pop_argument_type(context) ==
  IF Raised(context) THEN context
  ELSE IF context.emulated_stack_types = <<>>
       THEN Raise(context, [NoError EXCEPT !.kind = "IndexError"])
       ELSE [context EXCEPT !.emulated_stack_types = SubSeq(@, 1, Len(@) - 1)]

raise_for_enough_arguments(context, operator, required_args) ==
  IF Raised(context) THEN context
  ELSE IF Len(context.emulated_stack_types) < required_args
       THEN Raise(context, [NoError EXCEPT !.kind = "InsufficientOperands",
                                           !.operator = operator,
                                           !.required_args = required_args])
       ELSE context

RECURSIVE consume_n_arguments(_, _)
consume_n_arguments(context, args_to_consume) ==
  IF args_to_consume = 0 THEN context
  ELSE consume_n_arguments(pop_argument_type(context), args_to_consume - 1)

pop_and_raise_for_argument_type(context, expected_type, operator) ==
  LET actual == top_type(context)
      popped == pop_argument_type(context)
  IN IF Raised(popped) THEN popped
     ELSE IF actual # expected_type
          THEN Raise(popped, [NoError EXCEPT !.kind = "InvalidArgumentType",
                                             !.operator = operator,
                                             !.expected_type = expected_type,
                                             !.actual_type = actual])
          ELSE popped

RECURSIVE pop_and_raise_for_argument_types(_, _, _)
\* pops the types of `expected` from its last element to its first
pop_and_raise_for_argument_types(context, expected, operator) ==
  IF expected = <<>> THEN context
  ELSE pop_and_raise_for_argument_types(
         pop_and_raise_for_argument_type(context, expected[Len(expected)], operator),
         SubSeq(expected, 1, Len(expected) - 1), operator)

\* ------------------------------------- validate_type_safety: one loop iteration
Typecheck_WHILE_END(context, operator) == context

Typecheck_PUSH_INTEGER(context, operator) ==
  LET push_type ==
        IF operator.has_optimizations /\ operator.infer_type_after_optimization # NoneType
        THEN operator.infer_type_after_optimization
        ELSE "INTEGER"
  IN push_types(context, <<push_type>>)

Typecheck_PUSH_STRING(context, operator) == push_types(context, <<"POINTER", "INTEGER">>)

Typecheck_MEMORY_STORE(context, operator) ==
  consume_n_arguments(raise_for_enough_arguments(context, operator, 2), 2)

Typecheck_MEMORY_LOAD(context, operator) ==
  push_types(consume_n_arguments(raise_for_enough_arguments(context, operator, 2), 2),
             <<"INTEGER">>)

Typecheck_INCREMENT_DECREMENT(context, operator) ==
  push_types(
    pop_and_raise_for_argument_type(raise_for_enough_arguments(context, operator, 1),
                                    "INTEGER", operator),
    <<"INTEGER">>)

Typecheck_DROP(context, operator) ==
  consume_n_arguments(raise_for_enough_arguments(context, operator, 1), 1)

Typecheck_COMPARISON(context, operator) ==
  push_types(consume_n_arguments(raise_for_enough_arguments(context, operator, 2), 2),
             <<"BOOLEAN">>)

\* MINUS | PLUS with the pointer accepted on either slot
Typecheck_MINUS_PLUS_commutative(context, operator) ==
  LET c0 == raise_for_enough_arguments(context, operator, 2)
      b  == top_type(c0)
      c1 == pop_argument_type(c0)
      a  == top_type(c1)
      c2 == pop_argument_type(c1)
  IN IF Raised(c2) THEN c2
     ELSE IF a = "POINTER" \/ b = "POINTER"
          THEN IF {a, b} # {"POINTER", "INTEGER"}
               THEN Raise(c2, [NoError EXCEPT !.kind = "InvalidPointerArithmetics",
                                              !.actual_lhs_type = a,
                                              !.actual_rhs_type = b,
                                              !.operator = operator])
               ELSE push_types(c2, <<"POINTER">>)
          ELSE LET c3 == push_types(c2, <<b, a>>)
                   c4 == pop_and_raise_for_argument_type(c3, "INTEGER", operator)
                   c5 == pop_and_raise_for_argument_type(c4, "INTEGER", operator)
               IN push_types(c5, <<"INTEGER">>)

\* MINUS | PLUS reporting every pointer on the upper slot as pointer arithmetics
Typecheck_MINUS_PLUS_pointer_error(context, operator) ==
  LET c0 == raise_for_enough_arguments(context, operator, 2)
      b  == top_type(c0)
      c1 == pop_argument_type(c0)
      a  == top_type(c1)
      c2 == pop_argument_type(c1)
  IN IF Raised(c2) THEN c2
     ELSE IF a = "POINTER" \/ b = "POINTER"
          THEN IF b # "INTEGER"
               THEN Raise(c2, [NoError EXCEPT !.kind = "InvalidPointerArithmetics",
                                              !.actual_lhs_type = a,
                                              !.actual_rhs_type = b,
                                              !.operator = operator])
               ELSE push_types(c2, <<"POINTER">>)
          ELSE LET c3 == push_types(c2, <<b, a>>)
                   c4 == pop_and_raise_for_argument_type(c3, "INTEGER", operator)
                   c5 == pop_and_raise_for_argument_type(c4, "INTEGER", operator)
               IN push_types(c5, <<"INTEGER">>)

Typecheck_MINUS_PLUS(context, operator) ==
  LET c0 == raise_for_enough_arguments(context, operator, 2)
      b  == top_type(c0)
      c1 == pop_argument_type(c0)
      a  == top_type(c1)
      c2 == pop_argument_type(c1)
  IN IF Raised(c2) THEN c2
     ELSE IF a = "POINTER"
          THEN IF b # "INTEGER"
               THEN Raise(c2, [NoError EXCEPT !.kind = "InvalidPointerArithmetics",
                                              !.actual_lhs_type = a,
                                              !.actual_rhs_type = b,
                                              !.operator = operator])
               ELSE push_types(c2, <<"POINTER">>)
          ELSE LET c3 == push_types(c2, <<b, a>>)
                   c4 == pop_and_raise_for_argument_type(c3, "INTEGER", operator)
                   c5 == pop_and_raise_for_argument_type(c4, "INTEGER", operator)
               IN push_types(c5, <<"INTEGER">>)

\* MULTIPLY | DIVIDE | MODULUS rejecting only when both operands are not integers
Typecheck_MULTIPLY_DIVIDE_MODULUS_and(context, operator) ==
  LET c0 == raise_for_enough_arguments(context, operator, 2)
      b  == top_type(c0)
      c1 == pop_argument_type(c0)
      a  == top_type(c1)
      c2 == pop_argument_type(c1)
  IN IF Raised(c2) THEN c2
     ELSE IF b # "INTEGER" /\ a # "INTEGER"
          THEN Raise(c2, [NoError EXCEPT !.kind = "InvalidBinaryMathArithmetics",
                                         !.actual_lhs_type = a,
                                         !.actual_rhs_type = b,
                                         !.operator = operator])
          ELSE push_types(c2, <<"INTEGER">>)

Typecheck_MULTIPLY_DIVIDE_MODULUS(context, operator) ==
  LET c0 == raise_for_enough_arguments(context, operator, 2)
      b  == top_type(c0)
      c1 == pop_argument_type(c0)
      a  == top_type(c1)
      c2 == pop_argument_type(c1)
  IN IF Raised(c2) THEN c2
     ELSE IF b # "INTEGER" \/ a # "INTEGER"
          THEN Raise(c2, [NoError EXCEPT !.kind = "InvalidBinaryMathArithmetics",
                                         !.actual_lhs_type = a,
                                         !.actual_rhs_type = b,
                                         !.operator = operator])
          ELSE push_types(c2, <<"INTEGER">>)

\* one INTEGER for every injected value that is not None
InjectedTypes(injected_args) ==
  [i \in 1..Cardinality({j \in 1..Len(injected_args) : injected_args[j] # NoneInt})
     |-> "INTEGER"]

\* SYSCALLn taking every argument from the stack, injected or not
Typecheck_SYSCALL_no_injection(context, operator) ==
  LET args_count == get_syscall_arguments_count(operator)
      c1 == raise_for_enough_arguments(context, operator, args_count)
      c2 == consume_n_arguments(c1, args_count)
  IN IF ~operator.syscall_optimization_omit_result
     THEN push_types(c2, <<"INTEGER">>)
     ELSE c2

Typecheck_SYSCALL(context, operator) ==
  LET args_count    == get_syscall_arguments_count(operator)
      injected_args == operator.syscall_optimization_injected_args
      c0 == IF injected_args # <<>>
            THEN push_types(context, InjectedTypes(injected_args))
            ELSE context
      c1 == raise_for_enough_arguments(c0, operator, args_count)
      c2 == consume_n_arguments(c1, args_count)
  IN IF ~operator.syscall_optimization_omit_result
     THEN push_types(c2, <<"INTEGER">>)
     ELSE c2

Typecheck_COPY(context, operator) ==
  LET c0 == raise_for_enough_arguments(context, operator, 1)
      arg_type == top_type(c0)
      c1 == pop_argument_type(c0)
  IN push_types(c1, <<arg_type, arg_type>>)

\* SWAP putting the two types back as they were
Typecheck_SWAP_unswapped(context, operator) ==
  LET c0 == raise_for_enough_arguments(context, operator, 1)
      a  == top_type(c0)
      c1 == pop_argument_type(c0)
      b  == top_type(c1)
      c2 == pop_argument_type(c1)
  IN push_types(c2, <<b, a>>)

Typecheck_SWAP(context, operator) ==
  LET c0 == raise_for_enough_arguments(context, operator, 1)
      a  == top_type(c0)
      c1 == pop_argument_type(c0)
      b  == top_type(c1)
      c2 == pop_argument_type(c1)
  IN push_types(c2, <<a, b>>)

Typecheck_INTRINSIC(context, operator) ==
  CASE operator.operand = "MEMORY_STORE" -> Typecheck_MEMORY_STORE(context, operator)
    [] operator.operand = "MEMORY_LOAD" -> Typecheck_MEMORY_LOAD(context, operator)
    [] operator.operand \in {"INCREMENT", "DECREMENT"} ->
         Typecheck_INCREMENT_DECREMENT(context, operator)
    [] operator.operand = "DROP" -> Typecheck_DROP(context, operator)
    [] operator.operand \in ComparisonIntrinsics -> Typecheck_COMPARISON(context, operator)
    [] operator.operand \in {"MINUS", "PLUS"} -> Typecheck_MINUS_PLUS(context, operator)
    [] operator.operand \in {"MULTIPLY", "DIVIDE", "MODULUS"} ->
         Typecheck_MULTIPLY_DIVIDE_MODULUS(context, operator)
    [] operator.operand \in SyscallIntrinsics -> Typecheck_SYSCALL(context, operator)
    [] operator.operand = "COPY" -> Typecheck_COPY(context, operator)
    [] operator.operand = "SWAP" -> Typecheck_SWAP(context, operator)

\* IF taking the top type whatever it is
Typecheck_IF_untyped(context, operator) ==
  consume_n_arguments(raise_for_enough_arguments(context, operator, 1), 1)

Typecheck_IF(context, operator) ==
  pop_and_raise_for_argument_type(raise_for_enough_arguments(context, operator, 1),
                                  "BOOLEAN", operator)

\* program_context is the record [operators, functions, extern_functions];
\* `functions` is the dict name -> Function, kept as the sequence of its values
\* in insertion order
HasFunction(program_context, func_name) ==
  \E i \in 1..Len(program_context.functions) : program_context.functions[i].name = func_name

GetFunction(program_context, func_name) ==
  program_context.functions[
    CHOOSE i \in 1..Len(program_context.functions) :
      program_context.functions[i].name = func_name]

\* CALL with an unknown name let through as an operator without effect
Typecheck_CALL_unknown_accepted(context, operator, program_context) ==
  LET func_name == operator.operand
  IN IF func_name \in program_context.extern_functions
     THEN push_types(
            pop_and_raise_for_argument_type(
              raise_for_enough_arguments(context, operator, 1), "INTEGER", operator),
            <<"INTEGER">>)
     ELSE IF ~HasFunction(program_context, func_name)
          THEN context
          ELSE LET function == GetFunction(program_context, func_name)
                   c0 == raise_for_enough_arguments(context, operator,
                                                    Len(function.type_contract_in))
                   c1 == pop_and_raise_for_argument_types(c0, function.type_contract_in,
                                                          operator)
               IN push_types(c1, function.type_contract_out)

Typecheck_CALL(context, operator, program_context) ==
  LET func_name == operator.operand
  IN IF func_name \in program_context.extern_functions
     THEN push_types(
            pop_and_raise_for_argument_type(
              raise_for_enough_arguments(context, operator, 1), "INTEGER", operator),
            <<"INTEGER">>)
     ELSE IF ~HasFunction(program_context, func_name)
          THEN Raise(context, [NoError EXCEPT !.kind = "KeyError", !.operator = operator])
          ELSE LET function == GetFunction(program_context, func_name)
                   c0 == raise_for_enough_arguments(context, operator,
                                                    Len(function.type_contract_in))
                   c1 == pop_and_raise_for_argument_types(c0, function.type_contract_in,
                                                          operator)
               IN push_types(c1, function.type_contract_out)

Typecheck_DO(context, operator) ==
  pop_and_raise_for_argument_type(raise_for_enough_arguments(context, operator, 1),
                                  "BOOLEAN", operator)

\* the body of `for operator in operators`
TypecheckOperator(context, operator, program_context) ==
  CASE operator.type \in {"WHILE", "END"} -> Typecheck_WHILE_END(context, operator)
    [] operator.type = "PUSH_INTEGER" -> Typecheck_PUSH_INTEGER(context, operator)
    [] operator.type = "PUSH_STRING" -> Typecheck_PUSH_STRING(context, operator)
    [] operator.type = "INTRINSIC" -> Typecheck_INTRINSIC(context, operator)
    [] operator.type = "IF" -> Typecheck_IF(context, operator)
    [] operator.type = "CALL" -> Typecheck_CALL(context, operator, program_context)
    [] operator.type = "DO" -> Typecheck_DO(context, operator)

\* the end of validate_type_safety without the check of the residual stack
TypecheckAtEnd_unchecked(context) == context

\* the check after the loop
TypecheckAtEnd(context) ==
  IF context.emulated_stack_types # <<>>
  THEN Raise(context, [NoError EXCEPT !.kind = "NonEmptyStackAtEnd",
                                      !.stack_size = Len(context.emulated_stack_types)])
  ELSE context

RECURSIVE TypecheckOperatorsFrom(_, _, _, _)
\* `for operator in operators` from the i-th operator on (i from 1): the
\* context, the last operator visited and the stack it was visited with
TypecheckOperatorsFrom(session, operators, i, program_context) ==
  IF i > Len(operators) \/ Raised(session.context) THEN session
  ELSE TypecheckOperatorsFrom(
         [context |-> TypecheckOperator(session.context, operators[i], program_context),
          operator |-> operators[i],
          stack_before |-> session.context.emulated_stack_types],
         operators, i + 1, program_context)

\* validate_type_safety(program_context, operators)
validate_type_safety(program_context, operators) ==
  LET looped == TypecheckOperatorsFrom(
                  [context |-> TypecheckContext(<<>>), operator |-> NoOperator,
                   stack_before |-> <<>>],
                  operators, 1, program_context)
  IN [looped EXCEPT !.context = TypecheckAtEnd(@)]

\* ------------------------------------------------------------ CodegenContext
\* One line of output: the format string of the source, its integer arguments,
\* its string arguments, and whether it went through fd.write (raw, column 0)
\* or through context.write.
Line(text, ints, names, raw) == [text |-> text, ints |-> ints, names |-> names, raw |-> raw]

Ins(text) == Line(text, <<>>, <<>>, FALSE)

InsI(text, ints) == Line(text, ints, <<>>, FALSE)

InsN(text, names) == Line(text, <<>>, names, FALSE)

Raw(text) == Line(text, <<>>, <<>>, TRUE)

RawI(text, ints) == Line(text, ints, <<>>, TRUE)

RawN(text, names) == Line(text, <<>>, names, TRUE)

\* the generator's state: the lines written to fd, the string table (entry i
\* has the label str_<i-1>), the ProgramContext it was given and the exception
\* that ended it
NoException == "none"

CodegenContext(program_context) ==
  [fd |-> <<>>, strings |-> <<>>, program_context |-> program_context,
   exception |-> NoException]

Failed(cg) == cg.exception # NoException

write(cg, lines) == IF Failed(cg) THEN cg ELSE [cg EXCEPT !.fd = @ \o lines]

Fail(cg, exception) == IF Failed(cg) THEN cg ELSE [cg EXCEPT !.exception = exception]

\* context.load_string: a fresh label for every call, numbered in call order
load_string(cg, string) == IF Failed(cg) THEN cg ELSE [cg EXCEPT !.strings = Append(@, string)]

is_syscall(operator) ==
  operator.type = "INTRINSIC" /\ operator.operand \in SyscallIntrinsics

BoolInt(b) == IF b THEN 1 ELSE 0

\* ---------------------------------------------- _write_debug_operator_comment
DebugOperatorComment(operator) ==
  LET head == IF operator.type = "INTRINSIC"
              THEN "// * Intrinsic %s from %s" ELSE "// * Operator %s from %s"
      name == IF operator.type = "INTRINSIC" THEN operator.operand ELSE operator.type
  IN IF ~operator.has_optimizations
     THEN InsN(head, <<name>>)
     ELSE IF is_syscall(operator)
          THEN Line(head, <<BoolInt(operator.syscall_optimization_omit_result)>>
                            \o operator.syscall_optimization_injected_args,
                    <<name, " [optimized, omit result: %s, injected args: %s]">>, FALSE)
          ELSE InsN(head, <<name, " [optimized, infer type: %s]",
                            IF operator.infer_type_after_optimization # NoneType
                            THEN operator.infer_type_after_optimization ELSE "as-is">>)

\* --------------------------------------------------------- SYSCALLn lowering
\* injected_args[-n] of Python for n >= 1 (the caller checks n <= Len)
FromEnd(list, n) == list[Len(list) - n + 1]

RECURSIVE SyscallRegisters(_, _, _, _)
\* the loop `for arg_n in range(syscall_arguments - 1)` from arg_n on;
\* injected_args is the list after injected_args.pop()
SyscallRegisters(cg, syscall_arguments, injected_args, arg_n) ==
  IF arg_n >= syscall_arguments - 1 \/ Failed(cg) THEN cg
  ELSE LET arg_register == syscall_arguments - arg_n - 2
       IN IF arg_n # 0 /\ arg_n > Len(injected_args)
          THEN Fail(cg, "IndexError")
          ELSE LET injected_arg == IF arg_n # 0 THEN FromEnd(injected_args, arg_n)
                                   ELSE NoneInt
                   written ==
                     IF injected_arg = NoneInt
                     THEN write(cg, <<InsI("ldr X%s, [SP]", <<arg_register>>),
                                      Ins("add SP, SP, #16")>>)
                     ELSE write(cg, <<InsI("mov X%s, #%d", <<arg_register, injected_arg>>)>>)
               IN SyscallRegisters(written, syscall_arguments, injected_args, arg_n + 1)

\* the list injected_args.pop() leaves in the operator: the `or` hands out the
\* operator's own list when it is not empty and a new list otherwise
AfterPop(operator) ==
  IF operator.syscall_optimization_injected_args # <<>>
  THEN [operator EXCEPT !.syscall_optimization_injected_args = SubSeq(@, 1, Len(@) - 1)]
  ELSE operator

\* returns the generator's state and the operator as the lowering leaves it
Write_SYSCALL(cg, operator) ==
  LET syscall_arguments == get_syscall_arguments_count(operator)
      injected_args ==
        IF operator.syscall_optimization_injected_args # <<>>
        THEN operator.syscall_optimization_injected_args
        ELSE [i \in 1..syscall_arguments |-> NoneInt]
      c0 == IF FromEnd(injected_args, 1) = NoneInt
            THEN write(cg, <<Ins("ldr X16, [SP]"), Ins("add SP, SP, #16")>>)
            ELSE write(cg, <<InsI("mov X16, #%d", <<FromEnd(injected_args, 1)>>)>>)
      popped == SubSeq(injected_args, 1, Len(injected_args) - 1)
      c1 == SyscallRegisters(c0, syscall_arguments, popped, 0)
      c2 == write(c1, <<Ins("svc #0")>>)
      c3 == IF ~operator.syscall_optimization_omit_result
            THEN write(c2, <<Ins("sub SP, SP, #16"), Ins("str X0, [SP]")>>)
            ELSE c2
  IN [cg |-> c3, operator |-> AfterPop(operator)]

\* ------------------------------------------------------------ CALL lowering
RECURSIVE LoadArgumentRegisters(_)
\* `for arg_register in range(n - 1, -1, -1)`: registers n-1 down to 0
LoadArgumentRegisters(n) ==
  IF n = 0 THEN <<>>
  ELSE <<InsI("ldr X%s, [SP]", <<n - 1>>), Ins("add SP, SP, #16")>>
       \o LoadArgumentRegisters(n - 1)

\* CALL loading the argument registers for every function of the table
Write_CALL_always_loads(cg, operator) ==
  LET function_name == operator.operand
  IN IF HasFunction(cg.program_context, function_name)
     THEN LET function == GetFunction(cg.program_context, function_name)
              c0 == write(cg, LoadArgumentRegisters(Len(function.type_contract_in)))
              c1 == write(c0, <<InsN("bl %s", <<function_name>>)>>)
          IN IF function.type_contract_out # <<>>
             THEN write(c1, <<Ins("sub SP, SP, #16"), Ins("str X0, [SP]")>>)
             ELSE c1
     ELSE IF function_name \in cg.program_context.extern_functions
          THEN write(cg, <<Ins("ldr X0, [SP]"), Ins("add SP, SP, #16"),
                           InsN("bl %s", <<function_name>>),
                           Ins("sub SP, SP, #16"), Ins("str X0, [SP]")>>)
          ELSE Fail(cg, "KeyError")

Write_CALL(cg, operator) ==
  LET function_name == operator.operand
  IN IF HasFunction(cg.program_context, function_name)
     THEN LET function == GetFunction(cg.program_context, function_name)
              c0 == IF function.is_externally_defined
                    THEN write(cg, LoadArgumentRegisters(Len(function.type_contract_in)))
                    ELSE cg
              c1 == write(c0, <<InsN("bl %s", <<function_name>>)>>)
          IN IF function.type_contract_out # <<>>
             THEN write(c1, <<Ins("sub SP, SP, #16"), Ins("str X0, [SP]")>>)
             ELSE c1
     ELSE IF function_name \in cg.program_context.extern_functions
          THEN write(cg, <<Ins("ldr X0, [SP]"), Ins("add SP, SP, #16"),
                           InsN("bl %s", <<function_name>>),
                           Ins("sub SP, SP, #16"), Ins("str X0, [SP]")>>)
          ELSE Fail(cg, "KeyError")

\* ------------------------------------------------- plain intrinsics lowering
\* the binary template with the top slot in X1 and the next slot in X0
BinaryTemplate_top_in_X1(compute) ==
  <<Ins("ldr X1, [SP]"), Ins("add SP, SP, #16"), Ins("ldr X0, [SP]"),
    Ins("add SP, SP, #16")>> \o compute \o <<Ins("sub SP, SP, #16"), Ins("str X0, [SP]")>>

BinaryTemplate(compute) ==
  <<Ins("ldr X0, [SP]"), Ins("add SP, SP, #16"), Ins("ldr X1, [SP]"),
    Ins("add SP, SP, #16")>> \o compute \o <<Ins("sub SP, SP, #16"), Ins("str X0, [SP]")>>

\* first register loaded, second register loaded, condition code
CompareTemplate(first, second, condition) ==
  <<Ins(first), Ins("add SP, SP, #16"), Ins(second), Ins("add SP, SP, #16"),
    Ins("cmp X0, X1"), Ins(condition), Ins("sub SP, SP, #16"), Ins("str X0, [SP]")>>

IntrinsicLines(name) ==
  CASE name = "MEMORY_LOAD" -> <<Ins("ldr X0, [SP]"), Ins("ldr X1, [X0]"), Ins("str X1, [SP]")>>
    [] name = "MEMORY_STORE" ->
         <<Ins("ldr X0, [SP]"), Ins("add SP, SP, #16"), Ins("ldr X1, [SP]"),
           Ins("str X0, [X1]")>>
    [] name = "DROP" -> <<Ins("add SP, SP, #16")>>
    [] name = "PLUS" -> BinaryTemplate(<<Ins("add X0, X1, X0")>>)
    [] name = "MINUS" -> BinaryTemplate(<<Ins("sub X0, X1, X0")>>)
    [] name = "COPY" ->
         <<Ins("ldr X0, [SP]"), Ins("str X0, [SP]"), Ins("sub SP, SP, #16"),
           Ins("str X0, [SP]")>>
    [] name = "INCREMENT" -> <<Ins("ldr X0, [SP]"), Ins("add X0, X0, #1"), Ins("str X0, [SP]")>>
    [] name = "DECREMENT" -> <<Ins("ldr X0, [SP]"), Ins("sub X0, X0, #1"), Ins("str X0, [SP]")>>
    [] name = "MULTIPLY" -> BinaryTemplate(<<Ins("mul X0, X1, X0")>>)
    [] name = "DIVIDE" -> BinaryTemplate(<<Ins("sdiv X0, X1, X0")>>)
    [] name = "MODULUS" ->
         BinaryTemplate(<<Ins("udiv X2, X1, X0"), Ins("mul X2, X2, X0"), Ins("sub X0, X1, X2")>>)
    [] name = "NOT_EQUAL" -> CompareTemplate("ldr X1, [SP]", "ldr X0, [SP]", "cset X0, ne")
    [] name = "GREATER_EQUAL_THAN" ->
         CompareTemplate("ldr X0, [SP]", "ldr X1, [SP]", "cset X0, ge")
    [] name = "LESS_EQUAL_THAN" -> CompareTemplate("ldr X1, [SP]", "ldr X0, [SP]", "cset X0, le")
    [] name = "LESS_THAN" -> CompareTemplate("ldr X1, [SP]", "ldr X0, [SP]", "cset X0, lt")
    [] name = "GREATER_THAN" -> CompareTemplate("ldr X1, [SP]", "ldr X0, [SP]", "cset X0, gt")
    [] name = "EQUAL" -> CompareTemplate("ldr X1, [SP]", "ldr X0, [SP]", "cset X0, eq")
    [] name = "SWAP" ->
         <<Ins("ldr X0, [SP]"), Ins("add SP, SP, #16"), Ins("ldr X1, [SP]"),
           Ins("str X0, [SP]"), Ins("sub SP, SP, #16"), Ins("str X1, [SP]")>>

\* the lowering with IF branching to the loop-exit label of its target
WriteOperator_if_over(cg, idx, operator, debug_comments) ==
  LET c0 == IF debug_comments THEN write(cg, <<DebugOperatorComment(operator)>>) ELSE cg
      same(c) == [cg |-> c, operator |-> operator]
  IN CASE operator.type = "PUSH_INTEGER" ->
            same(write(c0, <<Ins("sub SP, SP, #16"),
                             InsI("mov X0, #%d", <<operator.integer>>),
                             Ins("str X0, [SP]")>>))
       [] operator.type = "PUSH_STRING" ->
            LET label == Len(c0.strings)
                c1 == load_string(c0, SubSeq(operator.token_text, 2,
                                             Len(operator.token_text) - 1))
            IN same(write(c1, <<Ins("sub SP, SP, #16"),
                                InsI("adr X0, %s", <<label>>),
                                Ins("str X0, [SP]"),
                                Ins("sub SP, SP, #16"),
                                InsI("mov X0, #%d", <<Len(operator.operand)>>),
                                Ins("str X0, [SP]")>>))
       [] operator.type = "DO" ->
            IF operator.jumps_to_operator_idx = NoneInt
            THEN same(Fail(c0, "AssertionError"))
            ELSE same(write(c0, <<Ins("ldr X0, [SP]"), Ins("add SP, SP, #16"),
                                  Ins("cmp X0, #1"),
                                  InsI("bne .ctx_%s_over", <<operator.jumps_to_operator_idx>>)>>))
       [] operator.type \in {"END", "WHILE"} ->
            IF operator.jumps_to_operator_idx # NoneInt
            THEN same(write(c0, <<InsI("b .ctx_%s", <<operator.jumps_to_operator_idx>>),
                                  RawI(".ctx_{idx}_over:", <<idx>>)>>))
            ELSE same(write(c0, <<RawI(".ctx_{idx}:", <<idx>>)>>))
       [] operator.type = "IF" ->
            IF operator.jumps_to_operator_idx = NoneInt
            THEN same(Fail(c0, "AssertionError"))
            ELSE same(write(c0, <<Ins("ldr X0, [SP]"), Ins("add SP, SP, #16"),
                                  Ins("cmp X0, #1"),
                                  InsI("bne .ctx_%s_over", <<operator.jumps_to_operator_idx>>)>>))
       [] operator.type = "INTRINSIC" ->
            IF operator.operand \in SyscallIntrinsics
            THEN Write_SYSCALL(c0, operator)
            ELSE same(write(c0, IntrinsicLines(operator.operand)))
       [] operator.type = "CALL" -> same(Write_CALL(c0, operator))
       [] OTHER -> same(Fail(c0, "NotImplementedError"))

\* --------------------------- _write_executable_body_instruction_set: one operator
\* idx is the index of enumerate(), from 0; returns the generator's state and
\* the operator as the lowering leaves it
WriteOperator(cg, idx, operator, debug_comments) ==
  LET c0 == IF debug_comments THEN write(cg, <<DebugOperatorComment(operator)>>) ELSE cg
      same(c) == [cg |-> c, operator |-> operator]
  IN CASE operator.type = "PUSH_INTEGER" ->
            same(write(c0, <<Ins("sub SP, SP, #16"),
                             InsI("mov X0, #%d", <<operator.integer>>),
                             Ins("str X0, [SP]")>>))
       [] operator.type = "PUSH_STRING" ->
            LET label == Len(c0.strings)
                c1 == load_string(c0, SubSeq(operator.token_text, 2,
                                             Len(operator.token_text) - 1))
            IN same(write(c1, <<Ins("sub SP, SP, #16"),
                                InsI("adr X0, %s", <<label>>),
                                Ins("str X0, [SP]"),
                                Ins("sub SP, SP, #16"),
                                InsI("mov X0, #%d", <<Len(operator.operand)>>),
                                Ins("str X0, [SP]")>>))
       [] operator.type = "DO" ->
            IF operator.jumps_to_operator_idx = NoneInt
            THEN same(Fail(c0, "AssertionError"))
            ELSE same(write(c0, <<Ins("ldr X0, [SP]"), Ins("add SP, SP, #16"),
                                  Ins("cmp X0, #1"),
                                  InsI("bne .ctx_%s_over", <<operator.jumps_to_operator_idx>>)>>))
       [] operator.type \in {"END", "WHILE"} ->
            IF operator.jumps_to_operator_idx # NoneInt
            THEN same(write(c0, <<InsI("b .ctx_%s", <<operator.jumps_to_operator_idx>>),
                                  RawI(".ctx_{idx}_over:", <<idx>>)>>))
            ELSE same(write(c0, <<RawI(".ctx_{idx}:", <<idx>>)>>))
       [] operator.type = "IF" ->
            IF operator.jumps_to_operator_idx = NoneInt
            THEN same(Fail(c0, "AssertionError"))
            ELSE same(write(c0, <<Ins("ldr X0, [SP]"), Ins("add SP, SP, #16"),
                                  Ins("cmp X0, #1"),
                                  InsI("bne .ctx_%s", <<operator.jumps_to_operator_idx>>)>>))
       [] operator.type = "INTRINSIC" ->
            IF operator.operand \in SyscallIntrinsics
            THEN Write_SYSCALL(c0, operator)
            ELSE same(write(c0, IntrinsicLines(operator.operand)))
       [] operator.type = "CALL" -> same(Write_CALL(c0, operator))
       [] OTHER -> same(Fail(c0, "NotImplementedError"))

RECURSIVE WriteOperatorsFrom(_, _, _, _)
\* the loop `for idx, operator in enumerate(operators)` from index idx on (idx
\* from 0); returns the generator's state and the operators as the loop leaves
\* them
WriteOperatorsFrom(cg, operators, idx, debug_comments) ==
  IF idx >= Len(operators) \/ Failed(cg) THEN [cg |-> cg, operators |-> operators]
  ELSE LET step == WriteOperator(cg, idx, operators[idx + 1], debug_comments)
       IN WriteOperatorsFrom(step.cg, [operators EXCEPT ![idx + 1] = step.operator],
                             idx + 1, debug_comments)

\* _write_executable_body_instruction_set on program_context.operators
WriteProgramBody(cg, debug_comments) ==
  LET done == WriteOperatorsFrom(cg, cg.program_context.operators, 0, debug_comments)
  IN [done.cg EXCEPT !.program_context.operators = done.operators]

RECURSIVE WriteFunctionDeclarationsFrom(_, _, _)
\* _write_function_declarations from the i-th value of the function table on
WriteFunctionDeclarationsFrom(cg, i, debug_comments) ==
  IF Failed(cg) \/ i > Len(cg.program_context.functions) THEN cg
  ELSE LET function == cg.program_context.functions[i]
       IN IF function.emit_inline_body \/ function.is_externally_defined
          THEN WriteFunctionDeclarationsFrom(cg, i + 1, debug_comments)
          ELSE LET c0 == write(cg, <<RawN("%s:", <<function.name>>)>>)
                   done == WriteOperatorsFrom(c0, function.source, 0, debug_comments)
                   c1 == [done.cg EXCEPT !.program_context.functions[i].source
                                           = done.operators]
                   c2 == write(c1, <<Ins("ret")>>)
               IN WriteFunctionDeclarationsFrom(c2, i + 1, debug_comments)

\* the declarations written with a string table of their own
_write_function_declarations_own_strings(cg, debug_comments) ==
  [WriteFunctionDeclarationsFrom(cg, 1, debug_comments) EXCEPT !.strings = cg.strings]

_write_function_declarations(cg, debug_comments) ==
  WriteFunctionDeclarationsFrom(cg, 1, debug_comments)

_write_debug_header_comment(cg, now) ==
  write(cg, <<Raw("// Assembly generated by Gofra codegen backend"),
              RawI("// Generated at: %s", <<now>>),
              Raw("// Target: ARM64, MacOS")>>)

_write_program_epilogue(cg, debug_comments) ==
  LET c0 == IF debug_comments
            THEN write(cg, <<Ins("// Program epilogue "), Ins("// (exit return-code 0)"),
                             Ins("// (always included)")>>)
            ELSE cg
  IN write(c0, <<Ins("mov X0, #0"), Ins("mov X16, #1"), Ins("svc #0")>>)

\* the static segment with the strings ahead of the scratch buffer
_write_static_segment_strings_first(cg) ==
  write(cg, [i \in 1..Len(cg.strings) |->
               Line("{string_key}: .string {string_value}", <<i - 1>>, cg.strings[i], TRUE)]
            \o <<Raw("mem_buffer: .space 1000")>>)

_write_static_segment(cg) ==
  write(cg, <<Raw("mem_buffer: .space 1000")>>
            \o [i \in 1..Len(cg.strings) |->
                  Line("{string_key}: .string {string_value}", <<i - 1>>, cg.strings[i], TRUE)])

_write_entry_header(cg) ==
  write(cg, <<Raw(".global _start"), Raw(".align 4"), Raw("_start:")>>)

\* ------------------------------------------------------------------ inputs
RECURSIVE SeqsUpTo(_, _)
\* the sequences over S of length 0..n
SeqsUpTo(S, n) ==
  IF n = 0 THEN {<<>>}
  ELSE LET shorter == SeqsUpTo(S, n - 1)
       IN shorter \cup {Append(q, x) : q \in shorter, x \in S}

Function(name, type_contract_in, type_contract_out, source, emit_inline_body, is_externally_defined) ==
  [name |-> name, type_contract_in |-> type_contract_in,
   type_contract_out |-> type_contract_out, source |-> source,
   emit_inline_body |-> emit_inline_body,
   is_externally_defined |-> is_externally_defined]

ProgramContext(operators, functions, extern_functions) ==
  [operators |-> operators, functions |-> functions,
   extern_functions |-> extern_functions]

\* "f", "g", "h" are in the function table, "ext" in the external set, "both"
\* in both and "nope" in neither
CallNames == {"f", "g", "h", "ext", "both", "nope"}

ExternFunctions == {"ext", "both"}

PushIntegerOperators ==
  {Operator("PUSH_INTEGER", "", n, NoneInt, has_opt, infer, FALSE, <<>>) :
     n \in 1..MaxImm, has_opt \in BOOLEAN, infer \in GofraType \cup {NoneType}}

PushStringOperators == {PlainOperator("PUSH_STRING", text) : text \in {"a", "b"}}

PlainIntrinsicOperators ==
  {PlainOperator("INTRINSIC", name) : name \in Intrinsic \ SyscallIntrinsics}

InjectedArgs(args_count) ==
  {<<>>} \cup [1..args_count -> {NoneInt} \cup 1..MaxImm]

SyscallOperators ==
  UNION {
    {Operator("INTRINSIC", name, 0, NoneInt, omit \/ injected # <<>>, NoneType, omit,
              injected) :
       omit \in BOOLEAN, injected \in InjectedArgs(SyscallIndex(name) + 1)} :
    name \in {n \in SyscallIntrinsics : SyscallIndex(n) <= MaxSyscallIndex}}

ControlOperators ==
  {Operator(type, "", 0, jumps_to, FALSE, NoneType, FALSE, <<>>) :
     type \in {"IF", "DO", "WHILE", "END"}, jumps_to \in {NoneInt} \cup 0..(MaxOps - 1)}

CallOperators == {PlainOperator("CALL", name) : name \in CallNames}

Operators ==
  PushIntegerOperators \cup PushStringOperators \cup PlainIntrinsicOperators
  \cup SyscallOperators \cup ControlOperators \cup CallOperators

\* The type-checker reads an integer operand, a string literal and an injected
\* value only through `is not None`: its inputs take one value for each.
TypecheckOperators ==
  {o \in Operators :
     /\ o.type = "PUSH_INTEGER" => o.integer = 1
     /\ o.type = "PUSH_STRING" => o.operand = "a"
     /\ \A i \in 1..Len(o.syscall_optimization_injected_args) :
          o.syscall_optimization_injected_args[i] \in {NoneInt, 1}}

FunctionTable(source, emit_inline_body, is_externally_defined) ==
  << Function("f", <<"POINTER", "INTEGER">>, <<"BOOLEAN", "INTEGER">>, source,
              emit_inline_body, is_externally_defined),
     Function("g", <<>>, <<"POINTER">>, <<>>, FALSE, FALSE),
     Function("h", <<>>, <<>>, <<>>, FALSE, FALSE),
     Function("both", <<"INTEGER", "INTEGER">>, <<>>, <<>>, FALSE, TRUE) >>

\* the function table of a type-check session (the bodies are not read by it)
TypecheckFunctions == FunctionTable(<<>>, FALSE, FALSE)

\* operators that define or reference labels, intern strings, call, or carry
\* injected arguments: the sequences longer than one operator are made of them
StructuralOperators ==
  ControlOperators
  \cup {PlainOperator("PUSH_STRING", "a"), PlainOperator("CALL", "f"),
        PlainOperator("CALL", "nope"), PlainOperator("CALL", "h"),
        PlainOperator("INTRINSIC", "DROP"),
        Operator("INTRINSIC", "SYSCALL0", 0, NoneInt, TRUE, NoneType, TRUE, <<1>>)}

\* what the parser makes of `if .. end` whose IF is the `at`-th operator (from 0)
IfBlock(at, body) ==
  <<Operator("IF", "", 0, at + Len(body) + 1, FALSE, NoneType, FALSE, <<>>)>>
  \o body \o <<PlainOperator("END", "")>>

\* what the parser makes of `while .. do .. end` whose WHILE is the `at`-th operator
WhileBlock(at, condition, body) ==
  <<PlainOperator("WHILE", "")>> \o condition
  \o <<Operator("DO", "", 0, at + Len(condition) + Len(body) + 2, FALSE, NoneType, FALSE, <<>>)>>
  \o body \o <<Operator("END", "", 0, at, FALSE, NoneType, FALSE, <<>>)>>

\* the operators between the control operators of a block
Fillers == SeqsUpTo({PlainOperator("INTRINSIC", "DROP")}, MaxFill)

\* programs with the wiring of the parser: one block, two blocks in a row, a
\* block inside a loop
WiredPrograms ==
  {a \o IfBlock(Len(a), b) : a \in Fillers, b \in Fillers}
  \cup {a \o WhileBlock(Len(a), b, c) : a \in Fillers, b \in Fillers, c \in Fillers}
  \cup {IfBlock(0, a) \o WhileBlock(Len(a) + 2, <<>>, b) : a \in Fillers, b \in Fillers}
  \cup {WhileBlock(0, a, IfBlock(Len(a) + 2, b)) : a \in Fillers, b \in Fillers}
  \cup {WhileBlock(0, <<>>, WhileBlock(2, a, b)) : a \in Fillers, b \in Fillers}

\* the operator sequences given to the generator
GeneratorPrograms ==
  {<<o>> : o \in Operators} \cup SeqsUpTo(StructuralOperators, MaxOps) \cup WiredPrograms

\* the bodies of the function "f"
FunctionBodies ==
  { <<>>,
    <<PlainOperator("PUSH_STRING", "b")>>,
    <<Operator("IF", "", 0, 1, FALSE, NoneType, FALSE, <<>>), PlainOperator("END", "")>>,
    <<Operator("INTRINSIC", "SYSCALL1", 0, NoneInt, TRUE, NoneType, FALSE, <<1, NoneInt>>)>> }

GeneratorFunctionTables ==
  {FunctionTable(source, inline, external) :
     source \in FunctionBodies, inline \in BOOLEAN, external \in BOOLEAN}

\* the ProgramContext values given to the generator: every program with one
\* function table, and every function table (the empty one too) with a few
\* programs
GeneratorProgramContexts ==
  {ProgramContext(operators, FunctionTable(<<PlainOperator("PUSH_STRING", "b")>>, FALSE, FALSE),
                  ExternFunctions) : operators \in GeneratorPrograms}
  \cup {ProgramContext(operators, functions, ExternFunctions) :
          operators \in {<<>>, <<PlainOperator("CALL", "f")>>,
                         <<PlainOperator("PUSH_STRING", "a")>>, IfBlock(0, <<>>)},
          functions \in GeneratorFunctionTables \cup {<<>>}}

\* ------------------------------------------------------ cli_user_error_handler
\* the exceptions of gofra.typecheck derive from GofraError; KeyError and
\* IndexError are built-in exceptions
GofraErrors ==
  {"InsufficientOperands", "InvalidArgumentType", "InvalidPointerArithmetics",
   "InvalidBinaryMathArithmetics", "NonEmptyStackAtEnd"}

\* where control is (inside the `with` block, past it, or gone with an
\* exception the handler does not catch), the messages printed, and the exit
\* status once the process has ended (None while it runs)
CliInHandler == [pc |-> "handler", printed |-> <<>>, status |-> NoneInt]

\* cli_message(level, text): one line of diagnostics
cli_message(state, level, text) == [state EXCEPT !.printed = Append(@, <<level, text>>)]

\* the `except GofraError as ge` clause: after it the exception is handled and
\* the `with` statement completes normally
cli_user_error_handler(state, error) ==
  IF error.kind \in GofraErrors
  THEN [cli_message(state, "ERROR", error) EXCEPT !.pc = "continued"]
  ELSE [state EXCEPT !.pc = "propagated"]

\* ------------------------------------------------------------------ processor
\* The instructions the generator emits for the arithmetic and comparison
\* intrinsics, run on registers X0..X2 and a data stack of 16-byte slots.
Modulus == 2 ^ WordBits

Word == 0..(Modulus - 1)

Wrap(n) == n % Modulus

\* the two's complement value of a word
Signed(x) == IF x >= Modulus \div 2 THEN x - Modulus ELSE x

Abs(n) == IF n < 0 THEN 0 - n ELSE n

\* udiv: unsigned division, 0 when the divisor is 0
udiv(a, b) == IF b = 0 THEN 0 ELSE a \div b

\* sdiv: signed division rounding toward zero, 0 when the divisor is 0
sdiv(a, b) ==
  IF b = 0 THEN 0
  ELSE LET q == Abs(Signed(a)) \div Abs(Signed(b))
       IN Wrap(IF (Signed(a) < 0) = (Signed(b) < 0) THEN q ELSE 0 - q)

\* the condition of `cset X0, <cond>` after `cmp first, second`
ConditionHolds(condition, first, second) ==
  CASE condition = "cset X0, eq" -> first = second
    [] condition = "cset X0, ne" -> first # second
    [] condition = "cset X0, lt" -> Signed(first) < Signed(second)
    [] condition = "cset X0, le" -> Signed(first) <= Signed(second)
    [] condition = "cset X0, gt" -> Signed(first) > Signed(second)
    [] condition = "cset X0, ge" -> Signed(first) >= Signed(second)

BinaryIntrinsics == {"PLUS", "MINUS", "MULTIPLY", "DIVIDE", "MODULUS"}

NoMachine ==
  [name |-> "", lines |-> <<>>, pc |-> 1, X |-> [r \in 0..2 |-> 0], flags |-> <<0, 0>>,
   memory |-> <<>>, sp |-> 0, lower |-> 0, upper |-> 0]

\* the slot under the operands holds Sentinel; one free slot lies above the top
Sentinel == Modulus - 1

\* the processor about to run the lowering of `name` with `upper` on the top
\* slot and `lower` on the slot below it
Machine(name, lines, lower, upper) ==
  [name |-> name, lines |-> lines, pc |-> 1, X |-> [r \in 0..2 |-> 0], flags |-> <<0, 0>>,
   memory |-> <<Sentinel, lower, upper, 0>>, sp |-> 3, lower |-> lower, upper |-> upper]

SetX(m, r, value) == [m EXCEPT !.X[r] = value, !.pc = @ + 1]

\* one instruction
Execute(m) ==
  LET text == m.lines[m.pc].text
  IN CASE text = "ldr X0, [SP]" -> SetX(m, 0, m.memory[m.sp])
       [] text = "ldr X1, [SP]" -> SetX(m, 1, m.memory[m.sp])
       [] text = "str X0, [SP]" -> [m EXCEPT !.memory[m.sp] = m.X[0], !.pc = @ + 1]
       [] text = "add SP, SP, #16" -> [m EXCEPT !.sp = @ - 1, !.pc = @ + 1]
       [] text = "sub SP, SP, #16" -> [m EXCEPT !.sp = @ + 1, !.pc = @ + 1]
       [] text = "add X0, X1, X0" -> SetX(m, 0, Wrap(m.X[1] + m.X[0]))
       [] text = "sub X0, X1, X0" -> SetX(m, 0, Wrap(m.X[1] - m.X[0]))
       [] text = "mul X0, X1, X0" -> SetX(m, 0, Wrap(m.X[1] * m.X[0]))
       [] text = "sdiv X0, X1, X0" -> SetX(m, 0, sdiv(m.X[1], m.X[0]))
       [] text = "udiv X2, X1, X0" -> SetX(m, 2, udiv(m.X[1], m.X[0]))
       [] text = "mul X2, X2, X0" -> SetX(m, 2, Wrap(m.X[2] * m.X[0]))
       [] text = "sub X0, X1, X2" -> SetX(m, 0, Wrap(m.X[1] - m.X[2]))
       [] text = "cmp X0, X1" -> [m EXCEPT !.flags = <<m.X[0], m.X[1]>>, !.pc = @ + 1]
       [] OTHER -> SetX(m, 0, BoolInt(ConditionHolds(text, m.flags[1], m.flags[2])))

\* --------------------------------------------------------- control-flow paths
\* the stack depth validate_type_safety has after the first k operators
DepthAfter(program_context, operators, k) ==
  Len(TypecheckOperatorsFrom(
        [context |-> TypecheckContext(<<>>), operator |-> NoOperator, stack_before |-> <<>>],
        SubSeq(operators, 1, k), 1, program_context).context.emulated_stack_types)

\* the change of depth validate_type_safety applies to the operator at index idx
DepthChange(program_context, operators, idx) ==
  DepthAfter(program_context, operators, idx + 1) - DepthAfter(program_context, operators, idx)

\* no path is being followed / the path at the first operator with an empty stack
NoPath == [ip |-> NoneInt, depth |-> 0]

PathStart == [ip |-> 0, depth |-> 0]

\* the operators between the control-flow operators of the programs followed
PathFillers ==
  SeqsUpTo({Operator("PUSH_INTEGER", "", 1, NoneInt, FALSE, NoneType, FALSE, <<>>),
            Operator("PUSH_INTEGER", "", 1, NoneInt, TRUE, "BOOLEAN", FALSE, <<>>),
            PlainOperator("INTRINSIC", "DROP")}, MaxFill)

\* one if-block or one while-block as the parser wires it, with operators
\* before it, inside it and after it
PathPrograms ==
  {before \o IfBlock(Len(before), body) \o after :
     before \in PathFillers, body \in PathFillers, after \in PathFillers}
  \cup {WhileBlock(0, condition, body) \o after :
          condition \in PathFillers, body \in PathFillers, after \in PathFillers}

\* ------------------------------------------------------------------- state
VARIABLES
  program_context,   \* the ProgramContext: operators, functions, extern_functions
  given_context,     \* the ProgramContext as the parser built it
  validated,         \* what `operators` is: "<program>" or the name of a function
  tc_pc,             \* validate_type_safety: "loop", "returned", "raised"
  context,           \* its TypecheckContext: emulated_stack_types (and the error raised)
  operator,          \* its loop variable: the operator of the last iteration
  stack_before,      \* emulated_stack_types when that iteration began
  debug_comments,    \* the generator's option
  cg_pc,             \* generate_ARM64_MacOS_backend: the call it is about to make
  fd,                \* the lines written to the output sink of this call
  strings,           \* context.strings
  exception,         \* the exception that ended this call
  calls,             \* the number of calls of the generator begun
  previous,          \* how the call before this one ended, and what it wrote
  cli,               \* the `with cli_user_error_handler()` block around the session
  machine,           \* a processor running the instructions of one lowered intrinsic
  path               \* one control-flow path: the index of the next operator and the depth

tc_vars == <<validated, tc_pc, context, operator, stack_before>>

cg_vars == <<debug_comments, cg_pc, fd, strings, exception, calls, previous>>

vars == <<program_context, given_context, tc_vars, cg_vars, cli, machine, path>>

NoCall == [pc |-> "idle", fd |-> <<>>]

\* ------------------------------------------------ validate_type_safety session
\* line 21: the session starts with emulated_stack_types = []
Init ==
  /\ program_context = ProgramContext(<<>>, TypecheckFunctions, ExternFunctions)
  /\ given_context = program_context
  /\ validated \in {"<program>", "f", "g"}
  /\ tc_pc = "loop"
  /\ context = TypecheckContext(<<>>)
  /\ operator = NoOperator
  /\ stack_before = <<>>
  /\ debug_comments = FALSE
  /\ cg_pc = "idle"
  /\ fd = <<>>
  /\ strings = <<>>
  /\ exception = NoException
  /\ calls = 0
  /\ previous = NoCall
  /\ cli = CliInHandler
  /\ machine = NoMachine
  /\ path = NoPath

\* one iteration of the loop on the operator `op`
Iterate(op) ==
  /\ tc_pc = "loop"
  /\ LET after == TypecheckOperator(context, op, program_context)
     IN /\ Len(after.emulated_stack_types) <= MaxDepth
        /\ context' = after
        /\ tc_pc' = IF Raised(after) THEN "raised" ELSE "loop"
  /\ operator' = op
  /\ stack_before' = context.emulated_stack_types
  /\ UNCHANGED <<program_context, given_context, validated, cg_vars, cli, machine, path>>

IterateWhileEnd == \E op \in {o \in TypecheckOperators : o.type \in {"WHILE", "END"}} : Iterate(op)

IteratePushInteger == \E op \in {o \in TypecheckOperators : o.type = "PUSH_INTEGER"} : Iterate(op)

IteratePushString == \E op \in {o \in TypecheckOperators : o.type = "PUSH_STRING"} : Iterate(op)

IterateIntrinsic == \E op \in {o \in TypecheckOperators : o.type = "INTRINSIC"} : Iterate(op)

IterateIf == \E op \in {o \in TypecheckOperators : o.type = "IF"} : Iterate(op)

IterateCall == \E op \in {o \in TypecheckOperators : o.type = "CALL"} : Iterate(op)

IterateDo == \E op \in {o \in TypecheckOperators : o.type = "DO"} : Iterate(op)

\* the sequence is exhausted: lines 203-206
LoopEnd ==
  /\ tc_pc = "loop"
  /\ LET after == TypecheckAtEnd(context)
     IN /\ context' = after
        /\ tc_pc' = IF Raised(after) THEN "raised" ELSE "returned"
  /\ UNCHANGED <<program_context, given_context, validated, operator, stack_before, cg_vars, cli, machine, path>>

\* the session returned: the `with` block ends
HandlerReturn ==
  /\ tc_pc = "returned"
  /\ cli.pc = "handler"
  /\ cli' = [cli EXCEPT !.pc = "continued"]
  /\ UNCHANGED <<program_context, given_context, tc_vars, cg_vars, machine, path>>

\* the session raised: errors.py lines 12-14
HandlerExcept ==
  /\ tc_pc = "raised"
  /\ cli.pc = "handler"
  /\ cli' = cli_user_error_handler(cli, context.error)
  /\ UNCHANGED <<program_context, given_context, tc_vars, cg_vars, machine, path>>

Next ==
  \/ IterateWhileEnd
  \/ IteratePushInteger
  \/ IteratePushString
  \/ IterateIntrinsic
  \/ IterateIf
  \/ IterateCall
  \/ IterateDo
  \/ LoopEnd
  \/ HandlerReturn
  \/ HandlerExcept

Spec == Init /\ [][Next]_vars

\* ------------------------------------- the compiler: type-check, then generate
\* debug comments are drawn for the programs of at most one operator
InitGen ==
  /\ program_context \in GeneratorProgramContexts
  /\ given_context = program_context
  /\ validated = "<program>"
  /\ tc_pc = "loop"
  /\ context = TypecheckContext(<<>>)
  /\ operator = NoOperator
  /\ stack_before = <<>>
  /\ debug_comments \in BOOLEAN
  /\ debug_comments => Len(program_context.operators) <= 1
  /\ cg_pc = "idle"
  /\ fd = <<>>
  /\ strings = <<>>
  /\ exception = NoException
  /\ calls = 0
  /\ previous = NoCall
  /\ cli = CliInHandler
  /\ machine = NoMachine
  /\ path = NoPath

\* validate_type_safety(program_context, program_context.operators), as a whole
Validate ==
  /\ tc_pc = "loop"
  /\ LET session == validate_type_safety(program_context, program_context.operators)
     IN /\ context' = session.context
        /\ operator' = session.operator
        /\ stack_before' = session.stack_before
        /\ tc_pc' = IF Raised(session.context) THEN "raised" ELSE "returned"
  /\ UNCHANGED <<program_context, given_context, validated, cg_vars, cli, machine, path>>

Cg == [fd |-> fd, strings |-> strings, program_context |-> program_context,
       exception |-> exception]

\* the generator's state after a step that leads to `then` unless it raised
CgBecomes(cg, then) ==
  /\ fd' = cg.fd
  /\ strings' = cg.strings
  /\ program_context' = cg.program_context
  /\ exception' = cg.exception
  /\ cg_pc' = IF Failed(cg) THEN "raised" ELSE then

\* lines 18-21: a call begins with a new CodegenContext on a new sink
GenerateBegin ==
  /\ tc_pc # "loop"
  /\ cg_pc \in {"idle", "returned", "raised"}
  /\ calls < MaxCalls
  /\ calls' = calls + 1
  /\ previous' = [pc |-> cg_pc, fd |-> fd]
  /\ \E now \in 1..MaxClock :
       CgBecomes(IF debug_comments
                 THEN _write_debug_header_comment(CodegenContext(program_context), now)
                 ELSE CodegenContext(program_context),
                 "declarations")
  /\ UNCHANGED <<cli, machine, path, given_context, tc_vars, debug_comments>>

\* lines 27-31
WriteFunctionDeclarations ==
  /\ cg_pc = "declarations"
  /\ CgBecomes(_write_function_declarations(Cg, debug_comments), "entry")
  /\ UNCHANGED <<cli, machine, path, given_context, tc_vars, debug_comments, calls, previous>>

\* line 33
WriteEntryHeader ==
  /\ cg_pc = "entry"
  /\ CgBecomes(_write_entry_header(Cg), "body")
  /\ UNCHANGED <<cli, machine, path, given_context, tc_vars, debug_comments, calls, previous>>

\* lines 35-41
WriteExecutableBody ==
  /\ cg_pc = "body"
  /\ CgBecomes(WriteProgramBody(Cg, debug_comments), "epilogue")
  /\ UNCHANGED <<cli, machine, path, given_context, tc_vars, debug_comments, calls, previous>>

\* line 42
WriteProgramEpilogue ==
  /\ cg_pc = "epilogue"
  /\ CgBecomes(_write_program_epilogue(Cg, debug_comments), "static")
  /\ UNCHANGED <<cli, machine, path, given_context, tc_vars, debug_comments, calls, previous>>

\* line 43
WriteStaticSegment ==
  /\ cg_pc = "static"
  /\ CgBecomes(_write_static_segment(Cg), "returned")
  /\ UNCHANGED <<cli, machine, path, given_context, tc_vars, debug_comments, calls, previous>>

NextGen ==
  \/ Validate
  \/ GenerateBegin
  \/ WriteFunctionDeclarations
  \/ WriteEntryHeader
  \/ WriteExecutableBody
  \/ WriteProgramEpilogue
  \/ WriteStaticSegment

SpecGen == InitGen /\ [][NextGen]_vars

\* ------------------------------------------------ the lowered code on a processor
InitMachine ==
  /\ program_context = ProgramContext(<<>>, <<>>, {})
  /\ given_context = program_context
  /\ validated = "<program>"
  /\ tc_pc = "returned"
  /\ context = TypecheckContext(<<>>)
  /\ operator = NoOperator
  /\ stack_before = <<>>
  /\ debug_comments = FALSE
  /\ cg_pc = "idle"
  /\ fd = <<>>
  /\ strings = <<>>
  /\ exception = NoException
  /\ calls = 0
  /\ previous = NoCall
  /\ cli = CliInHandler
  /\ path = NoPath
  /\ \E name \in BinaryIntrinsics \cup ComparisonIntrinsics, lower \in Word, upper \in Word :
       machine = Machine(name, IntrinsicLines(name), lower, upper)

ExecuteInstruction ==
  /\ machine.pc <= Len(machine.lines)
  /\ machine' = Execute(machine)
  /\ UNCHANGED <<program_context, given_context, tc_vars, cg_vars, cli, path>>

NextMachine == ExecuteInstruction

SpecMachine == InitMachine /\ [][NextMachine]_vars

\* ------------------------------------------------ the control flow of a program
\* validate_type_safety on a wired program, then the emitted code followed
\* along one control-flow path
InitPaths ==
  /\ program_context \in {ProgramContext(operators, <<>>, {}) : operators \in PathPrograms}
  /\ given_context = program_context
  /\ validated = "<program>"
  /\ tc_pc = "loop"
  /\ context = TypecheckContext(<<>>)
  /\ operator = NoOperator
  /\ stack_before = <<>>
  /\ debug_comments = FALSE
  /\ cg_pc = "idle"
  /\ fd = <<>>
  /\ strings = <<>>
  /\ exception = NoException
  /\ calls = 0
  /\ previous = NoCall
  /\ cli = CliInHandler
  /\ machine = NoMachine
  /\ path = PathStart

\* the program was accepted and the path has not left it
OnPath ==
  /\ tc_pc = "returned"
  /\ path.ip \in 0..(Len(program_context.operators) - 1)
  /\ path.depth >= 0

\* the operator the path is at
PathOperator == program_context.operators[path.ip + 1]

\* the operator at path.ip changes the depth and control goes to index `to`
PathTo(to) ==
  LET depth == path.depth
                 + DepthChange(program_context, program_context.operators, path.ip)
  IN /\ depth <= MaxDepth
     /\ path' = [ip |-> to, depth |-> depth]
     /\ UNCHANGED <<program_context, given_context, tc_vars, cg_vars, cli, machine>>

\* an operator that does not branch, an IF or DO whose condition is 1, a
\* WHILE, or an END without jumps_to: control falls through
FallThrough ==
  /\ OnPath
  /\ ~(PathOperator.type = "END" /\ PathOperator.jumps_to_operator_idx # NoneInt)
  /\ PathTo(path.ip + 1)

\* IF whose condition is not 1: `bne .ctx_<jumps_to>`, the label of its END
BranchIf ==
  /\ OnPath
  /\ PathOperator.type = "IF"
  /\ PathTo(PathOperator.jumps_to_operator_idx)

\* DO whose condition is not 1: `bne .ctx_<jumps_to>_over`, the label written
\* after the `b` of its END
BranchDo ==
  /\ OnPath
  /\ PathOperator.type = "DO"
  /\ PathTo(PathOperator.jumps_to_operator_idx + 1)

\* END with jumps_to: `b .ctx_<jumps_to>`, the label of its WHILE
LoopBack ==
  /\ OnPath
  /\ PathOperator.type = "END"
  /\ PathOperator.jumps_to_operator_idx # NoneInt
  /\ PathTo(PathOperator.jumps_to_operator_idx)

NextPaths == Validate \/ FallThrough \/ BranchIf \/ BranchDo \/ LoopBack

SpecPaths == InitPaths /\ [][NextPaths]_vars

\* ------------------------------------------------------- type-checker claims
Top(stack) == stack[Len(stack)]

Below(stack) == stack[Len(stack) - 1]

\* the stack without its n topmost types
Without(stack, n) == SubSeq(stack, 1, Len(stack) - n)

IterationErrors ==
  {"InsufficientOperands", "InvalidArgumentType", "InvalidPointerArithmetics",
   "InvalidBinaryMathArithmetics", "KeyError", "IndexError"}

\* the last iteration of the loop accepted / rejected its operator
Accepted == operator # NoOperator /\ context.error.kind \notin IterationErrors

Rejected == operator # NoOperator /\ context.error.kind \in IterationErrors

IsIntrinsic(names) == operator.type = "INTRINSIC" /\ operator.operand \in names

InjectedCount(op) ==
  Cardinality({i \in 1..Len(op.syscall_optimization_injected_args) :
                 op.syscall_optimization_injected_args[i] # NoneInt})

\* the number of types the operator takes from the stack of its caller; -1 for
\* an operator that takes none or a CALL of an unknown function
PoppedTypes(op) ==
  CASE op.type = "INTRINSIC" /\ op.operand \in {"DROP", "COPY", "INCREMENT", "DECREMENT"} -> 1
    [] op.type = "INTRINSIC" /\ op.operand \in SyscallIntrinsics ->
         get_syscall_arguments_count(op) - InjectedCount(op)
    [] op.type = "INTRINSIC" -> 2
    [] op.type \in {"IF", "DO"} -> 1
    [] op.type = "CALL" /\ op.operand \in program_context.extern_functions -> 1
    [] op.type = "CALL" /\ HasFunction(program_context, op.operand) ->
         Len(GetFunction(program_context, op.operand).type_contract_in)
    [] OTHER -> -1

\* C1: an operator that pops n types and is reached with fewer than n types on
\* the abstract stack fails with InsufficientOperands for that operator, and no
\* pop is ever attempted on an empty abstract stack.
C1_ArityPreCheck ==
  /\ (operator # NoOperator /\ Len(stack_before) < PoppedTypes(operator))
       => /\ context.error.kind = "InsufficientOperands"
          /\ context.error.operator = operator
  /\ context.error.kind # "IndexError"

\* C2: a top-level session that gets through every operator returns only with
\* an empty abstract stack, and with k > 0 residual types it raises
\* NonEmptyStackAtEnd with stack_size = k.
C2_TerminationCheck ==
  (validated = "<program>" /\ tc_pc # "loop" /\ context.error.kind \notin IterationErrors)
    => IF context.emulated_stack_types = <<>>
       THEN tc_pc = "returned" /\ context.error = NoError
       ELSE /\ tc_pc = "raised"
            /\ context.error.kind = "NonEmptyStackAtEnd"
            /\ context.error.stack_size = Len(context.emulated_stack_types)

C2_Witness ==
  /\ validated = "<program>"
  /\ tc_pc = "raised"
  /\ context.error.kind = "NonEmptyStackAtEnd"
  /\ context.error.stack_size = 2
  /\ operator.type = "PUSH_STRING"

\* C3: a session on the body of a function succeeds exactly when the abstract
\* stack after the last operator equals the function's output contract.
C3_FunctionContract ==
  (validated # "<program>" /\ tc_pc # "loop" /\ context.error.kind \notin IterationErrors)
    => (tc_pc = "returned"
          <=> context.emulated_stack_types
                = GetFunction(program_context, validated).type_contract_out)

\* C4: PLUS/MINUS on b (top) and a (below) is accepted exactly for
\* (a, b) = (POINTER, INTEGER), leaving one POINTER in their place, and for
\* (a, b) = (INTEGER, INTEGER), leaving one INTEGER; every other pair is rejected.
C4_PlusMinusRule ==
  (IsIntrinsic({"PLUS", "MINUS"}) /\ Len(stack_before) >= 2)
    => LET a == Below(stack_before)
           b == Top(stack_before)
       IN IF a = "POINTER" /\ b = "INTEGER"
          THEN Accepted /\ context.emulated_stack_types = Append(Without(stack_before, 2), "POINTER")
          ELSE IF a = "INTEGER" /\ b = "INTEGER"
               THEN Accepted /\ context.emulated_stack_types = Append(Without(stack_before, 2), "INTEGER")
               ELSE Rejected

C4_Witness ==
  /\ IsIntrinsic({"PLUS"})
  /\ stack_before = <<"BOOLEAN", "POINTER", "INTEGER">>
  /\ context.emulated_stack_types = <<"BOOLEAN", "POINTER">>
  /\ tc_pc = "loop"

\* C5 as stated: PLUS/MINUS reached with INTEGER below POINTER fails with
\* InvalidPointerArithmetic.
C5_MisplacedPointerIsPointerArithmetic ==
  (IsIntrinsic({"PLUS", "MINUS"}) /\ Len(stack_before) >= 2
     /\ Below(stack_before) = "INTEGER" /\ Top(stack_before) = "POINTER")
    => context.error.kind = "InvalidPointerArithmetics"

\* C5 amended: PLUS/MINUS reached with INTEGER below POINTER fails with
\* InvalidArgumentType, expected INTEGER and actual POINTER.
C5_MisplacedPointerIsArgumentType ==
  (IsIntrinsic({"PLUS", "MINUS"}) /\ Len(stack_before) >= 2
     /\ Below(stack_before) = "INTEGER" /\ Top(stack_before) = "POINTER")
    => /\ tc_pc = "raised"
       /\ context.error.kind = "InvalidArgumentType"
       /\ context.error.expected_type = "INTEGER"
       /\ context.error.actual_type = "POINTER"
       /\ context.error.operator = operator

C5_Witness ==
  /\ IsIntrinsic({"PLUS"})
  /\ stack_before = <<"INTEGER", "POINTER">>
  /\ tc_pc = "raised"
  /\ context.error.kind = "InvalidArgumentType"

\* C6: MULTIPLY/DIVIDE/MODULUS on at least two types is accepted exactly when
\* both are INTEGER, leaving one INTEGER in their place; otherwise it fails
\* with InvalidBinaryMathArithmetic, lhs the lower and rhs the upper type.
C6_MultiplyDivideModulusRule ==
  (IsIntrinsic({"MULTIPLY", "DIVIDE", "MODULUS"}) /\ Len(stack_before) >= 2)
    => LET a == Below(stack_before)
           b == Top(stack_before)
       IN IF a = "INTEGER" /\ b = "INTEGER"
          THEN Accepted /\ context.emulated_stack_types = Append(Without(stack_before, 2), "INTEGER")
          ELSE /\ tc_pc = "raised"
               /\ context.error.kind = "InvalidBinaryMathArithmetics"
               /\ context.error.actual_lhs_type = a
               /\ context.error.actual_rhs_type = b

C6_Witness ==
  /\ IsIntrinsic({"MODULUS"})
  /\ stack_before = <<"INTEGER", "POINTER">>
  /\ context.error.kind = "InvalidBinaryMathArithmetics"
  /\ context.error.actual_lhs_type = "INTEGER"
  /\ context.error.actual_rhs_type = "POINTER"

\* C7: SYSCALLn of arity a with k injected values needs a - k types, removes
\* the a - k topmost types of the caller and pushes one INTEGER unless
\* omit_result is set; with k = a and omit_result it is accepted on an empty
\* stack and leaves the stack as it was.
C7_SyscallRule ==
  IsIntrinsic(SyscallIntrinsics)
    => LET taken == get_syscall_arguments_count(operator) - InjectedCount(operator)
       IN IF Len(stack_before) < taken
          THEN tc_pc = "raised" /\ context.error.kind = "InsufficientOperands"
          ELSE /\ Accepted
               /\ context.emulated_stack_types
                    = Without(stack_before, taken)
                      \o (IF operator.syscall_optimization_omit_result
                          THEN <<>> ELSE <<"INTEGER">>)

C7_Witness ==
  /\ IsIntrinsic({"SYSCALL2"})
  /\ InjectedCount(operator) = 3
  /\ operator.syscall_optimization_omit_result
  /\ stack_before = <<>>
  /\ context.emulated_stack_types = <<>>
  /\ tc_pc = "returned"

\* ---------------------------------------------------------- generator claims
\* the lines of this call written after the entry header
BodyLines ==
  LET start == CHOOSE i \in 1..Len(fd) : fd[i] = Raw("_start:")
  IN SubSeq(fd, start + 1, Len(fd))

Pops(lines) == Cardinality({i \in 1..Len(lines) : lines[i] = Ins("add SP, SP, #16")})

\* the injected value of every position, None where nothing is injected
InjectedByPosition(op) ==
  IF op.syscall_optimization_injected_args # <<>>
  THEN op.syscall_optimization_injected_args
  ELSE [i \in 1..get_syscall_arguments_count(op) |-> NoneInt]

RECURSIVE RegistersByPosition(_, _)
\* positions p, p-1, .. 0 feed the registers Xp, .. X0 (position p is injected[p + 1])
RegistersByPosition(injected, p) ==
  IF p < 0 THEN <<>>
  ELSE (IF injected[p + 1] = NoneInt
        THEN <<InsI("ldr X%s, [SP]", <<p>>), Ins("add SP, SP, #16")>>
        ELSE <<InsI("mov X%s, #%d", <<p, injected[p + 1]>>)>>)
       \o RegistersByPosition(injected, p - 1)

\* the lowering of a syscall that takes every position's own injected value
LoweringByPosition(op) ==
  LET a == get_syscall_arguments_count(op)
      injected == InjectedByPosition(op)
  IN (IF injected[a] = NoneInt
      THEN <<Ins("ldr X16, [SP]"), Ins("add SP, SP, #16")>>
      ELSE <<InsI("mov X16, #%d", <<injected[a]>>)>>)
     \o RegistersByPosition(injected, a - 2)
     \o <<Ins("svc #0")>>
     \o (IF op.syscall_optimization_omit_result THEN <<>>
         ELSE <<Ins("sub SP, SP, #16"), Ins("str X0, [SP]")>>)

\* the first call has just lowered a program of one syscall operator
LoweredOneSyscall ==
  /\ calls = 1
  /\ cg_pc = "epilogue"
  /\ ~debug_comments
  /\ Len(given_context.operators) = 1
  /\ is_syscall(given_context.operators[1])

\* C8: the lowering of SYSCALLn loads or moves every position from that
\* position's own injected entry (the last into X16, position p into Xp), so
\* the pops it emits are the arity minus the number of injected values.
C8_SyscallLoweringByPosition ==
  LoweredOneSyscall
    => LET op == given_context.operators[1]
       IN /\ BodyLines = LoweringByPosition(op)
          /\ Pops(BodyLines) = get_syscall_arguments_count(op) - InjectedCount(op)

\* C9: two calls in succession on the same ProgramContext without debug
\* comments write the same output.
C9_GeneratorIdempotent ==
  (calls = 2 /\ cg_pc = "returned" /\ previous.pc = "returned" /\ ~debug_comments)
    => fd = previous.fd

\* C10: the ProgramContext is as the parser built it, whatever the type-checker
\* and the generator have done.
C10_ProgramContextReadOnly == program_context = given_context

\* ------------------------------------------------------------ emission order
\* the lines debug_comments adds: they begin with `//`
CommentTexts ==
  {"// Assembly generated by Gofra codegen backend", "// Generated at: %s",
   "// Target: ARM64, MacOS", "// * Intrinsic %s from %s", "// * Operator %s from %s",
   "// Program epilogue ", "// (exit return-code 0)", "// (always included)"}

IsComment(line) == line.text \in CommentTexts

\* the output of this call without its comments
CodeLines == SelectSeq(fd, LAMBDA line : ~IsComment(line))

EntryHeader == <<Raw(".global _start"), Raw(".align 4"), Raw("_start:")>>

ExitEpilogue == <<Ins("mov X0, #0"), Ins("mov X16, #1"), Ins("svc #0")>>

MemBuffer == Raw("mem_buffer: .space 1000")

Positions(lines, line) == {i \in 1..Len(lines) : lines[i] = line}

IsFunctionLabel(line) == line.raw /\ line.text = "%s:"

IsStringLine(line) == line.text = "{string_key}: .string {string_value}"

\* the functions that get a declaration, in the order of the function table
DeclaredFunctions ==
  SelectSeq(given_context.functions,
            LAMBDA f : ~f.emit_inline_body /\ ~f.is_externally_defined)

\* the sections of a complete output, in their order
SectionsInOrder(code) ==
  /\ Cardinality(Positions(code, EntryHeader[1])) = 1
  /\ Cardinality(Positions(code, EntryHeader[2])) = 1
  /\ Cardinality(Positions(code, EntryHeader[3])) = 1
  /\ Cardinality(Positions(code, MemBuffer)) = 1
  /\ LET entry  == CHOOSE i \in 1..Len(code) : code[i] = EntryHeader[1]
         static == CHOOSE i \in 1..Len(code) : code[i] = MemBuffer
         before == SubSeq(code, 1, entry - 1)
     IN /\ entry + 2 < static - 3
        /\ SubSeq(code, entry, entry + 2) = EntryHeader
        /\ SubSeq(code, static - 3, static - 1) = ExitEpilogue
        /\ SelectSeq(before, IsFunctionLabel)
             = [i \in 1..Len(DeclaredFunctions) |-> RawN("%s:", <<DeclaredFunctions[i].name>>)]
        /\ Cardinality(Positions(before, Ins("ret"))) = Len(DeclaredFunctions)
        /\ IF DeclaredFunctions = <<>> THEN entry = 1
           ELSE IsFunctionLabel(code[1]) /\ code[entry - 1] = Ins("ret")
        /\ \A i \in entry..Len(code) : ~IsFunctionLabel(code[i]) /\ code[i] # Ins("ret")
        /\ \A i \in 1..Len(code) : IsStringLine(code[i]) <=> i > static

C11_WitnessEmptyProgram ==
  /\ cg_pc = "returned"
  /\ given_context.operators = <<>>
  /\ DeclaredFunctions = <<>>
  /\ fd = EntryHeader \o ExitEpilogue \o <<MemBuffer>>

\* ------------------------------------------------------------ label closure
\* the wiring the claim names: IF -> END without jumps_to, DO -> END whose
\* jumps_to is a WHILE without jumps_to
BranchesWired(operators) ==
  \A i \in 1..Len(operators) :
    LET j == operators[i].jumps_to_operator_idx
    IN /\ operators[i].type = "IF"
            => /\ j \in 0..(Len(operators) - 1)
               /\ operators[j + 1].type = "END"
               /\ operators[j + 1].jumps_to_operator_idx = NoneInt
       /\ operators[i].type = "DO"
            => /\ j \in 0..(Len(operators) - 1)
               /\ operators[j + 1].type = "END"
               /\ LET w == operators[j + 1].jumps_to_operator_idx
                  IN /\ w \in 0..(Len(operators) - 1)
                     /\ operators[w + 1].type = "WHILE"
                     /\ operators[w + 1].jumps_to_operator_idx = NoneInt

\* the parser gives a jumps_to to an END only when it closes a DO, and to no WHILE
NoStrayJump(operators) ==
  \A i \in 1..Len(operators) :
    /\ operators[i].type = "WHILE" => operators[i].jumps_to_operator_idx = NoneInt
    /\ (operators[i].type = "END" /\ operators[i].jumps_to_operator_idx # NoneInt)
         => \E d \in 1..Len(operators) :
              operators[d].type = "DO" /\ operators[d].jumps_to_operator_idx = i - 1

ParserWiring(operators) == BranchesWired(operators) /\ NoStrayJump(operators)

\* every sequence the generator lowers has the wiring of the parser
AllParserWired ==
  /\ ParserWiring(given_context.operators)
  /\ \A i \in 1..Len(DeclaredFunctions) : ParserWiring(DeclaredFunctions[i].source)

\* a label is its index and whether it is the _over label
ReferencedLabels ==
  {<<fd[i].ints[1], FALSE>> : i \in {k \in 1..Len(fd) : fd[k].text \in {"bne .ctx_%s", "b .ctx_%s"}}}
  \cup {<<fd[i].ints[1], TRUE>> : i \in {k \in 1..Len(fd) : fd[k].text = "bne .ctx_%s_over"}}

DefinedLabels ==
  {<<fd[i].ints[1], FALSE>> : i \in {k \in 1..Len(fd) : fd[k].text = ".ctx_{idx}:"}}
  \cup {<<fd[i].ints[1], TRUE>> : i \in {k \in 1..Len(fd) : fd[k].text = ".ctx_{idx}_over:"}}

\* C12 as stated: when every IF and every DO of every lowered sequence is
\* wired (IF -> END without jumps_to, DO -> END whose jumps_to is a WHILE
\* without jumps_to), every label a branch of IF, DO, END or WHILE refers to is
\* defined in the same output.
C12_LabelClosureBranchesWired ==
  (cg_pc = "returned" /\ BranchesWired(given_context.operators)
     /\ \A i \in 1..Len(DeclaredFunctions) : BranchesWired(DeclaredFunctions[i].source))
    => ReferencedLabels \subseteq DefinedLabels

\* C12 amended: when, besides, no WHILE carries a jumps_to and an END carries
\* one only as the target of a DO, every label a branch of IF, DO, END or WHILE
\* refers to is defined in the same output.
C12_LabelClosure ==
  (cg_pc = "returned" /\ AllParserWired) => ReferencedLabels \subseteq DefinedLabels

C12_Witness ==
  /\ cg_pc = "returned"
  /\ AllParserWired
  /\ ReferencedLabels = {<<0, FALSE>>, <<5, TRUE>>, <<4, FALSE>>}
  /\ DefinedLabels = ReferencedLabels

\* ------------------------------------------------------------------- calls
KnownCallTarget(name) ==
  HasFunction(given_context, name) \/ name \in given_context.extern_functions

CallsOf(operators) == {i \in 1..Len(operators) : operators[i].type = "CALL"}

\* C13: a sequence validate_type_safety accepts has only CALLs of names in the
\* function table or the external set, and the generator never fails on it
\* with its unknown-call-target error (KeyError); a CALL of a name in neither
\* ends the validation with that error.
C13_CallTargetSafety ==
  /\ tc_pc = "returned"
       => /\ \A i \in CallsOf(given_context.operators) :
               KnownCallTarget(given_context.operators[i].operand)
          /\ exception # "KeyError"
  /\ (operator.type = "CALL" /\ ~KnownCallTarget(operator.operand))
       => /\ tc_pc = "raised"
          /\ context.error.kind = "KeyError"
          /\ context.error.operator = operator

C13_Witness ==
  /\ tc_pc = "returned"
  /\ given_context.operators = <<PlainOperator("CALL", "h"), PlainOperator("CALL", "h")>>
  /\ cg_pc = "returned"
  /\ exception = NoException

C13_WitnessUnknown ==
  /\ tc_pc = "raised"
  /\ context.error.kind = "KeyError"
  /\ given_context.operators = <<PlainOperator("CALL", "h"), PlainOperator("CALL", "nope")>>
  /\ exception = "KeyError"

\* the n topmost types of the stack, the deepest first
TopTypes(stack, n) == SubSeq(stack, Len(stack) - n + 1, Len(stack))

\* the outcome of CALL under the contract (type_in, type_out)
CallFollows(type_in, type_out) ==
  IF Len(stack_before) < Len(type_in)
  THEN tc_pc = "raised" /\ context.error.kind = "InsufficientOperands"
  ELSE IF TopTypes(stack_before, Len(type_in)) = type_in
       THEN /\ Accepted
            /\ context.emulated_stack_types
                 = Without(stack_before, Len(type_in)) \o type_out
       ELSE /\ tc_pc = "raised"
            /\ context.error.kind = "InvalidArgumentType"
            /\ context.error.operator = operator

C15_ControlFlowRule ==
  /\ operator.type \in {"IF", "DO"}
       => IF stack_before = <<>>
          THEN /\ tc_pc = "raised"
               /\ context.error.kind = "InsufficientOperands"
               /\ context.error.operator = operator
          ELSE IF Top(stack_before) = "BOOLEAN"
               THEN Accepted /\ context.emulated_stack_types = Without(stack_before, 1)
               ELSE /\ tc_pc = "raised"
                    /\ context.error.kind = "InvalidArgumentType"
                    /\ context.error.expected_type = "BOOLEAN"
                    /\ context.error.actual_type = Top(stack_before)
  /\ operator.type \in {"WHILE", "END"}
       => Accepted /\ context.emulated_stack_types = stack_before

C15_Witness ==
  /\ operator.type = "DO"
  /\ operator.jumps_to_operator_idx = 1
  /\ stack_before = <<"POINTER", "BOOLEAN">>
  /\ context.emulated_stack_types = <<"POINTER">>
  /\ tc_pc = "loop"

C15_WitnessWhile ==
  /\ operator.type = "WHILE"
  /\ operator.jumps_to_operator_idx = 1
  /\ stack_before = <<"POINTER", "BOOLEAN">>
  /\ context.emulated_stack_types = stack_before

C15_WitnessRejected ==
  /\ operator.type = "IF"
  /\ stack_before = <<"POINTER">>
  /\ context.error.kind = "InvalidArgumentType"

\* -------------------------------------------------------- CLI error reporting
\* C16: once a type-check error (a GofraError) raised inside the handler has
\* been dealt with, exactly one ERROR diagnostic has been printed and the tool
\* has ended with a non-zero status; control is not past the handler.
C16_ErrorThenExit ==
  (tc_pc = "raised" /\ context.error.kind \in GofraErrors /\ cli.pc # "handler")
    => /\ Len(cli.printed) = 1
       /\ cli.printed[1][1] = "ERROR"
       /\ cli.pc = "exited"
       /\ cli.status \notin {NoneInt, 0}

\* ------------------------------------------------------- lowering, executed
Finished == machine.lines # <<>> /\ machine.pc > Len(machine.lines)

\* the comparison of the source language on two's complement values
Compares(name, l, u) ==
  CASE name = "EQUAL" -> l = u
    [] name = "NOT_EQUAL" -> l # u
    [] name = "LESS_THAN" -> l < u
    [] name = "LESS_EQUAL_THAN" -> l <= u
    [] name = "GREATER_THAN" -> l > u
    [] name = "GREATER_EQUAL_THAN" -> l >= u

\* both operands are gone, one slot holds `value`, the slot below is untouched
LeavesOneSlot(value) ==
  /\ machine.sp = 2
  /\ machine.memory[2] = value
  /\ machine.memory[1] = Sentinel

\* C17: the code emitted for a comparison intrinsic, run with u on the top slot
\* and l on the slot below, pops both and pushes 1 if l op u holds and 0
\* otherwise.
C17_ComparisonLowering ==
  (Finished /\ machine.name \in ComparisonIntrinsics)
    => LeavesOneSlot(BoolInt(Compares(machine.name, Signed(machine.lower),
                                      Signed(machine.upper))))

\* X1 op X0 for the binary arithmetic intrinsics
Computes(name, x1, x0) ==
  CASE name = "PLUS" -> Wrap(x1 + x0)
    [] name = "MINUS" -> Wrap(x1 - x0)
    [] name = "MULTIPLY" -> Wrap(x1 * x0)
    [] name = "DIVIDE" -> sdiv(x1, x0)
    [] name = "MODULUS" -> Wrap(x1 - udiv(x1, x0) * x0)

\* C18: the code emitted for PLUS, MINUS, MULTIPLY, DIVIDE and MODULUS loads
\* the top slot into X0, pops, loads the next slot into X1, pops, and pushes
\* one slot holding X1 op X0 (MODULUS: X1 - (X1 udiv X0) * X0): the deeper
\* operand is the left one and the data stack is one slot shorter.
C18_BinaryLowering ==
  machine.name \in BinaryIntrinsics
    => /\ SubSeq(machine.lines, 1, 4)
            = <<Ins("ldr X0, [SP]"), Ins("add SP, SP, #16"), Ins("ldr X1, [SP]"),
                Ins("add SP, SP, #16")>>
       /\ machine.pc = 5 => (machine.X[0] = machine.upper /\ machine.X[1] = machine.lower)
       /\ Finished => LeavesOneSlot(Computes(machine.name, machine.lower, machine.upper))

C18_Witness ==
  /\ Finished
  /\ machine.name = "MINUS"
  /\ machine.lower = 1
  /\ machine.upper = 3
  /\ machine.memory[2] = Modulus - 2

C18_WitnessModulus ==
  /\ Finished
  /\ machine.name = "MODULUS"
  /\ machine.lower = 7
  /\ machine.upper = 3
  /\ machine.memory[2] = 1

\* --------------------------------------------------------- string intern table
\* the positions of the `adr X0, <label>` lines, and of the `.string` lines
AdrPositions == {i \in 1..Len(fd) : fd[i].text = "adr X0, %s"}

StringPositions == {i \in 1..Len(fd) : IsStringLine(fd[i])}

Label(i) == fd[i].ints[1]

\* C19: the labels of the PUSH_STRING lowerings of one run (function bodies
\* and top level) are pairwise distinct; no `.string` line is written before
\* the last PUSH_STRING has been lowered; the static segment has exactly one
\* `.string` line for every label an `adr X0, <label>` refers to, none missing
\* and none repeated.
C19_StringInternTable ==
  /\ \A i, j \in AdrPositions : Label(i) = Label(j) => i = j
  /\ \A i \in AdrPositions : Label(i) \in 0..(Len(strings) - 1)
  /\ cg_pc # "returned" => StringPositions = {}
  /\ cg_pc = "returned"
       => /\ \A i \in AdrPositions, j \in StringPositions \cup Positions(fd, MemBuffer) : i < j
          /\ \A i, j \in StringPositions : Label(i) = Label(j) => i = j
          /\ {Label(i) : i \in StringPositions} = {Label(i) : i \in AdrPositions}
          /\ \A i \in StringPositions : fd[i].names = strings[Label(i) + 1]

C19_Witness ==
  /\ cg_pc = "returned"
  /\ strings = <<<<"b">>, <<"a">>, <<"a">>>>
  /\ Cardinality(AdrPositions) = 3
  /\ Cardinality(StringPositions) = 3

\* ------------------------------------------------------------- SWAP and COPY
\* SWAP on the abstract stack `stack`
Swapped(stack) ==
  Typecheck_SWAP(TypecheckContext(stack), PlainOperator("INTRINSIC", "SWAP")).emulated_stack_types

\* C20: SWAP exchanges the two topmost types and leaves the types below as
\* they are, so SWAP twice on a stack of depth >= 2 gives the stack back; COPY
\* on a stack with T on top gives the same stack with one more T on top.
C20_SwapAndCopy ==
  /\ (IsIntrinsic({"SWAP"}) /\ Len(stack_before) >= 2)
       => /\ Accepted
          /\ context.emulated_stack_types
               = Without(stack_before, 2) \o <<Top(stack_before), Below(stack_before)>>
          /\ Swapped(context.emulated_stack_types) = stack_before
  /\ Len(context.emulated_stack_types) >= 2
       => Swapped(Swapped(context.emulated_stack_types)) = context.emulated_stack_types
  /\ (IsIntrinsic({"COPY"}) /\ Len(stack_before) >= 1)
       => /\ Accepted
          /\ context.emulated_stack_types = Append(stack_before, Top(stack_before))

C20_Witness ==
  /\ IsIntrinsic({"SWAP"})
  /\ stack_before = <<"BOOLEAN", "POINTER", "INTEGER">>
  /\ context.emulated_stack_types = <<"BOOLEAN", "INTEGER", "POINTER">>

C20_WitnessCopy ==
  /\ IsIntrinsic({"COPY"})
  /\ stack_before = <<"INTEGER", "BOOLEAN">>
  /\ context.emulated_stack_types = <<"INTEGER", "BOOLEAN", "BOOLEAN">>

\* --------------------------------------------------------------- CALL lowering
\* n load-and-pop pairs: the k-th pair fills X(n-k)
ArgumentLoads(n) ==
  [k \in 1..(2 * n) |->
     IF k % 2 = 1 THEN InsI("ldr X%s, [SP]", <<n - ((k + 1) \div 2)>>)
     ELSE Ins("add SP, SP, #16")]

\* the first call has just lowered a program of one CALL of a function of the table
LoweredOneTableCall ==
  /\ calls = 1
  /\ cg_pc = "epilogue"
  /\ ~debug_comments
  /\ Len(given_context.operators) = 1
  /\ given_context.operators[1].type = "CALL"
  /\ HasFunction(given_context, given_context.operators[1].operand)

\* C21: CALL of a function of the table with n inputs that is externally
\* defined emits n load-and-pop pairs filling X(n-1) down to X0, then
\* `bl <name>`, then a push of X0 exactly when the output contract is not
\* empty; for a function that is not externally defined nothing is popped
\* before `bl`.
C21_CallLowering ==
  LoweredOneTableCall
    => LET function == GetFunction(given_context, given_context.operators[1].operand)
       IN BodyLines
            = (IF function.is_externally_defined
               THEN ArgumentLoads(Len(function.type_contract_in)) ELSE <<>>)
              \o <<InsN("bl %s", <<function.name>>)>>
              \o (IF function.type_contract_out # <<>>
                  THEN <<Ins("sub SP, SP, #16"), Ins("str X0, [SP]")>> ELSE <<>>)

C21_Witness ==
  /\ LoweredOneTableCall
  /\ given_context.operators[1].operand = "f"
  /\ GetFunction(given_context, "f").is_externally_defined
  /\ BodyLines = <<InsI("ldr X%s, [SP]", <<1>>), Ins("add SP, SP, #16"),
                   InsI("ldr X%s, [SP]", <<0>>), Ins("add SP, SP, #16"),
                   InsN("bl %s", <<"f">>), Ins("sub SP, SP, #16"), Ins("str X0, [SP]")>>

C21_WitnessNotExternal ==
  /\ LoweredOneTableCall
  /\ given_context.operators[1].operand = "f"
  /\ ~GetFunction(given_context, "f").is_externally_defined
  /\ Len(BodyLines) = 3

\* --------------------------------------------- type-checker against generator
Pushes(lines) == Cardinality({i \in 1..Len(lines) : lines[i] = Ins("sub SP, SP, #16")})

\* the code the generator emits for the operator of the last iteration
Lowered == WriteOperator(CodegenContext(program_context), 0, operator, FALSE).cg

\* the operators the agreement is stated for
StackEffectOperator ==
  \/ operator.type \in {"PUSH_INTEGER", "PUSH_STRING", "IF", "DO", "WHILE", "END"}
  \/ operator.type = "INTRINSIC" /\ ~is_syscall(operator)

\* C22: for every accepted operator other than CALL and the syscalls, the net
\* change of the abstract stack depth equals the net number of 16-byte slots
\* the emitted code moves SP by (pushes minus pops).
C22_StackEffectAgreement ==
  (Accepted /\ StackEffectOperator /\ ~Failed(Lowered))
    => Len(context.emulated_stack_types) - Len(stack_before)
         = Pushes(Lowered.fd) - Pops(Lowered.fd)

\* the agreement on the operators other than MEMORY_LOAD and MEMORY_STORE
C22_StackEffectAgreementElsewhere ==
  (Accepted /\ StackEffectOperator /\ ~Failed(Lowered)
     /\ ~IsIntrinsic({"MEMORY_LOAD", "MEMORY_STORE"}))
    => Len(context.emulated_stack_types) - Len(stack_before)
         = Pushes(Lowered.fd) - Pops(Lowered.fd)

C22_WitnessLoad ==
  /\ Accepted
  /\ IsIntrinsic({"MEMORY_LOAD"})
  /\ Len(context.emulated_stack_types) - Len(stack_before) = -1
  /\ Pushes(Lowered.fd) - Pops(Lowered.fd) = 0

C22_WitnessStore ==
  /\ Accepted
  /\ IsIntrinsic({"MEMORY_STORE"})
  /\ Len(context.emulated_stack_types) - Len(stack_before) = -2
  /\ Pushes(Lowered.fd) - Pops(Lowered.fd) = -1

\* ------------------------------------------------------------ label uniqueness
\* the positions of the lines of the output that define a control-flow label
LabelDefinitions ==
  {i \in 1..Len(fd) : fd[i].text \in {".ctx_{idx}:", ".ctx_{idx}_over:"}}

HasControlFlow(operators) ==
  \E i \in 1..Len(operators) : operators[i].type \in {"IF", "WHILE", "DO", "END"}

\* C23: in one output every label .ctx_<i> and .ctx_<i>_over is defined at
\* most once, also when the top-level sequence and an emitted function body
\* both contain IF/WHILE/DO/END.
C23_LabelUniqueness ==
  cg_pc = "returned"
    => \A i \in LabelDefinitions, j \in LabelDefinitions : fd[i] = fd[j] => i = j

\* the labels of an output whose emitted function bodies have no control flow
C23_LabelUniquenessOneSequence ==
  (cg_pc = "returned"
     /\ \A k \in 1..Len(DeclaredFunctions) : ~HasControlFlow(DeclaredFunctions[k].source))
    => \A i \in LabelDefinitions, j \in LabelDefinitions : fd[i] = fd[j] => i = j

C23_WitnessDuplicate ==
  /\ cg_pc = "returned"
  /\ HasControlFlow(given_context.operators)
  /\ \E k \in 1..Len(DeclaredFunctions) : HasControlFlow(DeclaredFunctions[k].source)
  /\ \E i \in LabelDefinitions, j \in LabelDefinitions : i < j /\ fd[i] = fd[j]

\* ------------------------------------------------------ soundness over branches
\* C24: on every control-flow path of an accepted sequence with parser-valid
\* wiring the depth stays >= 0 at each operator and is 0 at the end, each
\* operator changing the depth by the amount the type-checker applies to it.
C24_BranchSoundness ==
  (tc_pc = "returned" /\ ParserWiring(program_context.operators) /\ path # NoPath)
    => /\ path.depth >= 0
       /\ path.ip = Len(program_context.operators) => path.depth = 0

\* [PUSH_INTEGER 1 (BOOLEAN), IF, PUSH_INTEGER 1, END, DROP] with the IF skipped
C24_WitnessSkippedIf ==
  /\ tc_pc = "returned"
  /\ Len(program_context.operators) = 5
  /\ program_context.operators[2].type = "IF"
  /\ program_context.operators[3].type = "PUSH_INTEGER"
  /\ program_context.operators[5].operand = "DROP"
  /\ path = [ip |-> 5, depth |-> -1]

\* a loop body that pushes, run once: the path ends with a non-empty stack
C24_WitnessLoopRun ==
  /\ tc_pc = "returned"
  /\ program_context.operators[1].type = "WHILE"
  /\ path.ip = Len(program_context.operators)
  /\ path.depth > 0

====
